---------------------------- MODULE Spec2Model ----------------------------
(***************************************************************************)
(* Model of catgif0/py_bots: the rolling price/volume windows, the         *)
(* percentage-change computation and the long-signal rule of long_bot.py,  *)
(* and the periodic market-update loop of signal_bot.py.                   *)
(*                                                                         *)
(* Numbers.  Python floats are modelled by integers in fixed units:        *)
(*   - prices and volumes in hundredths (200 is 2.00),                     *)
(*   - percentage changes in tenths of a percent (-15 is -1.5 %).          *)
(* The feeds only deliver values for which every division of the model is  *)
(* exact, so integer arithmetic computes what the float arithmetic does.   *)
(* A Python value is a record [t |-> type, v |-> number]: t is "float",    *)
(* "None", "str" (the string "N/A"), "unbound" (a local not yet assigned)  *)
(* or the name of a raised exception.                                      *)
(***************************************************************************)
EXTENDS Integers, Sequences, FiniteSets, TLC

\* ------------------------------------------------------------------ bounds
\* Polling cycles a run of the model goes through (the code loops forever).
MaxCycles == 62
\* Fetches of a run that may return something else than the steady quote.
MaxDeviations == 1

\* ------------------------------------------------------- program constants
\* deque(maxlen=60)
maxlen == 60
\* the negative indices of the lookbacks: [-2], [-5], [-15], [-60]
Idx1m == 2
Idx5m == 5
Idx15m == 15
Idx1h == 60
\* thresholds of generate_signal, in tenths of a percent: 1.5, 1.3, 12
OiThreshold == 15
PriceThreshold == 13
VolumeThreshold == 120
\* stop_loss = current_price * 0.98 ; take_profit = current_price + 2 * risk
StopLossPercent == 98
RewardRatio == 2
\* percent -> tenths of a percent: ... * 100 in the code is ... * 1000 here
PerMille == 1000

\* ------------------------------------------------------------ Python values
F(x) == [t |-> "float", v |-> x]
None == [t |-> "None", v |-> 0]
NA == [t |-> "str", v |-> 0]
Unbound == [t |-> "unbound", v |-> 0]
Raise(e) == [t |-> e, v |-> 0]
IsNum(x) == x.t = "float"
IsExc(x) == x.t \in {"TypeError", "ZeroDivisionError", "ValueError"}

\* The symbols monitored (the first two of long_bot's list).
SYMBOLS == <<"HFTUSDT", "XVSUSDT">>
SymbolSet == {SYMBOLS[i] : i \in 1..Len(SYMBOLS)}

VARIABLES
    price_history,   \* symbol -> deque of prices
    volume_history,  \* symbol -> deque of volumes
    pc,              \* position of the loop
    idx,             \* index in SYMBOLS of the symbol of the current pass
    cycle,           \* number of the current polling cycle (1 = first)
    local,           \* the local variables of the loop body
    outbox,          \* last message handed to send_telegram_message
    error,           \* the exception that ended the loop, or None
    price_log,       \* history variable: every price ever appended, per symbol
    volume_log,      \* history variable: every volume ever appended, per symbol
    deviations,      \* fetches so far that did not return the steady quote
    call,            \* the arguments of a direct call of generate_signal
    returned,        \* what that call returned (Unbound before it returns)
    tracked,         \* InstrumentUniverse: the instruments tracked
    store,           \* InstrumentUniverse: instrument -> its SampleStore window
    refresh          \* the last universe refresh: its inputs, outcome, and the
                     \* universe it found (history variable)

vars == <<price_history, volume_history, pc, idx, cycle, local, outbox, error,
          price_log, volume_log, deviations, call, returned, tracked, store,
          refresh>>

\* What the polling loops never touch.
apart == <<call, returned, tracked, store, refresh>>

\* ------------------------------------------------------------------- deque
\* Mutant of DequeAppend: a deque built without maxlen, which never evicts.
DequeAppendUnbounded(d, x) == Append(d, x)

\* Mutant of DequeAppend: the placeholder of a failed fetch is not recorded.
DequeAppendSkipMissing(d, x) ==
    IF x.t # "float" THEN d
    ELSE IF Len(d) >= maxlen THEN Tail(d) \o <<x>> ELSE Append(d, x)

\* deque.append on a deque(maxlen=60): at capacity the leftmost item is dropped.
DequeAppend(d, x) ==
    IF Len(d) >= maxlen THEN Tail(d) \o <<x>> ELSE Append(d, x)

\* d[-k]
At(d, k) == d[Len(d) - k + 1]

\* ---------------------------------------------------------------- changes
\* ((cur - base) / base) * 100 as Python evaluates it: the subtraction first
\* (TypeError on None or a string), then the division (ZeroDivisionError).
PercentChange(cur, base) ==
    IF ~IsNum(cur) \/ ~IsNum(base) THEN Raise("TypeError")
    ELSE IF base.v = 0 THEN Raise("ZeroDivisionError")
    ELSE F(((cur.v - base.v) * PerMille) \div base.v)

\* ((cur - h[-k]) / h[-k]) * 100 if len(h) >= k else None
ChangeOrNone(cur, h, k) ==
    IF Len(h) >= k THEN PercentChange(cur, At(h, k)) ELSE None

\* The four conditional expressions of one metric, in source order; the first
\* exception raised ends the evaluation.
Changes(cur, h) ==
    LET c1 == ChangeOrNone(cur, h, Idx1m)
        c5 == ChangeOrNone(cur, h, Idx5m)
        c15 == ChangeOrNone(cur, h, Idx15m)
        c60 == ChangeOrNone(cur, h, Idx1h)
        raised == IF IsExc(c1) THEN c1
                  ELSE IF IsExc(c5) THEN c5
                  ELSE IF IsExc(c15) THEN c15
                  ELSE IF IsExc(c60) THEN c60
                  ELSE None
    IN [c1m |-> c1, c5m |-> c5, c15m |-> c15, c1h |-> c60, raised |-> raised]


\* ---------------------------------------------------------- generate_signal
Labels == {"1m", "5m", "15m", "1h", "24h"}
VolumeLabels == {"1m", "5m", "15m", "1h"}

\* Mutant of AllNegative: any(...) in place of all(...).
AnyNegative(changes) ==
    \E k \in DOMAIN changes : changes[k] # None /\ changes[k].v < 0

\* all(change is not None and change < 0 for change in changes.values())
AllNegative(changes) ==
    \A k \in DOMAIN changes : changes[k] # None /\ changes[k].v < 0

\* Mutant of Exceeds: the drop is compared with the threshold (value < -threshold).
ExceedsAsDrop(value, threshold) == value # None /\ value.v < 0 - threshold

\* value is not None and value > threshold
Exceeds(value, threshold) == value # None /\ value.v > threshold

oi_condition(oi_changes) ==
    AllNegative(oi_changes) /\ Exceeds(oi_changes["5m"], OiThreshold)

price_condition_1(price_changes) ==
    AllNegative(price_changes) /\ Exceeds(price_changes["5m"], PriceThreshold)

volume_condition(volume_changes) ==
    AllNegative(volume_changes) /\ Exceeds(volume_changes["5m"], VolumeThreshold)

\* The values rendered in the message of a signal.
SignalMessage(sym, current_price) ==
    LET stop_loss == (current_price.v * StopLossPercent) \div 100
        risk == current_price.v - stop_loss
        take_profit == current_price.v + RewardRatio * risk
    IN [t |-> "signal", pair |-> sym, price |-> current_price.v,
        stop_loss |-> stop_loss,
        tp1 |-> take_profit, tp2 |-> take_profit, tp3 |-> take_profit]

NoSignal ==
    [t |-> "None", pair |-> "", price |-> 0, stop_loss |-> 0,
     tp1 |-> 0, tp2 |-> 0, tp3 |-> 0]

\* current_price * 0.98 with current_price = None raises TypeError.
SignalRaises == [NoSignal EXCEPT !.t = "TypeError"]

generate_signal(sym, current_price, oi_changes, price_changes, volume_changes) ==
    IF oi_condition(oi_changes)
       /\ (price_condition_1(price_changes) \/ volume_condition(volume_changes))
    THEN IF IsNum(current_price) THEN SignalMessage(sym, current_price)
         ELSE SignalRaises
    ELSE NoSignal

\* The state of `call` when generate_signal is not called directly.
NoCall ==
    [symbol |-> "", current_price |-> Unbound,
     oi_changes |-> [k \in Labels |-> Unbound],
     price_changes |-> [k \in Labels |-> Unbound],
     volume_changes |-> [k \in VolumeLabels |-> Unbound]]

\* The state of `refresh` before any refresh of the universe.
NoRefresh ==
    [n |-> 0, ok |-> FALSE, listing |-> [s \in {} |-> 0], validSet |-> {},
     before |-> [s \in {} |-> <<>>]]

\* ------------------------------------------------------------------- feeds
\* get_price_data: {} on any failure, else lastPrice and priceChangePercent.
SteadyTicker == [price |-> F(200), price_change_24h |-> F(-20)]
TickerFeed ==
    { [price |-> None, price_change_24h |-> None],     \* {}: both .get give None
      [price |-> F(0), price_change_24h |-> F(-1000)],
      SteadyTicker,
      [price |-> F(400), price_change_24h |-> F(10)] }

\* get_volume of long_bot.py: "N/A" on any failure, else the volume.
SteadyVolume == F(200)
VolumeFeed == {NA, F(0), SteadyVolume, F(400)}

\* get_open_interest_change for '5m', '15m', '1h', '1d': None on failure.
SteadyOi ==
    [oi_5m |-> F(-20), oi_15m |-> F(-30), oi_1h |-> F(-40), oi_24h |-> F(-50)]
OiFeed ==
    { [oi_5m |-> None, oi_15m |-> None, oi_1h |-> None, oi_24h |-> None],
      SteadyOi,
      [oi_5m |-> F(20), oi_15m |-> F(-30), oi_1h |-> None, oi_24h |-> F(5)] }

\* --------------------------------------------------------- long_bot.py loop
InitLocal ==
    [oi_5m |-> Unbound, oi_15m |-> Unbound, oi_1h |-> Unbound, oi_24h |-> Unbound,
     current_price |-> Unbound, price_change_24h_raw |-> Unbound,
     price_change_1m |-> Unbound, price_change_5m |-> Unbound,
     price_change_15m |-> Unbound, price_change_1h |-> Unbound,
     price_change_24h |-> Unbound,
     current_volume |-> Unbound,
     volume_change_1m |-> Unbound, volume_change_5m |-> Unbound,
     volume_change_15m |-> Unbound, volume_change_1h |-> Unbound,
     oi_changes |-> [k \in Labels |-> Unbound],
     price_changes |-> [k \in Labels |-> Unbound],
     volume_changes |-> [k \in VolumeLabels |-> Unbound],
     signal |-> NoSignal,
     \* history fields: the <<cycle, idx>> of the pass that assigned the group
     oi_at |-> <<0, 0>>, price_at |-> <<0, 0>>, volume_at |-> <<0, 0>>,
     sets_at |-> <<0, 0>>]

\* price_history = {symbol: deque(maxlen=60) for symbol in SYMBOLS}, and the same
\* for volume_history.
EmptyHistory == [s \in SymbolSet |-> <<>>]

Init ==
    /\ price_history = EmptyHistory
    /\ volume_history = EmptyHistory
    /\ pc = "fetch"
    /\ idx = 1
    /\ cycle = 1
    /\ local = InitLocal
    /\ outbox = NoSignal
    /\ error = None
    /\ price_log = EmptyHistory
    /\ volume_log = EmptyHistory
    /\ deviations = 0
    /\ call = NoCall
    /\ returned = Unbound
    /\ tracked = {}
    /\ store = [s \in {} |-> <<>>]
    /\ refresh = NoRefresh

symbol == SYMBOLS[idx]

\* A fetch may return the steady quote, or (within the bound) anything else.
Deviates(value, steady) == IF value = steady THEN 0 ELSE 1

\* lines 232-241: the four OI fetches, get_price_data, and the append of the price.
FetchPrice ==
    /\ pc = "fetch"
    /\ \E oi \in OiFeed, price_data \in TickerFeed :
          /\ deviations' = deviations + Deviates(oi, SteadyOi)
                                       + Deviates(price_data, SteadyTicker)
          /\ deviations' <= MaxDeviations
          /\ local' = [local EXCEPT !.oi_5m = oi.oi_5m, !.oi_15m = oi.oi_15m,
                                    !.oi_1h = oi.oi_1h, !.oi_24h = oi.oi_24h,
                                    !.current_price = price_data.price,
                                    !.price_change_24h_raw = price_data.price_change_24h,
                                    !.oi_at = <<cycle, idx>>]
          /\ price_history' = [price_history EXCEPT
                                  ![symbol] = DequeAppend(@, price_data.price)]
          /\ price_log' = [price_log EXCEPT ![symbol] = Append(@, price_data.price)]
    /\ pc' = "price_changes"
    /\ UNCHANGED <<volume_history, idx, cycle, outbox, error, volume_log,
                   apart>>

\* lines 244-248: the price changes; an exception ends monitor_pairs and, as the
\* call is not guarded, the while loop of the module.
PriceChanges ==
    /\ pc = "price_changes"
    /\ LET c == Changes(local.current_price, price_history[symbol])
       IN IF c.raised # None
          THEN /\ pc' = "crashed"
               /\ error' = c.raised
               /\ local' = local
          ELSE /\ pc' = "fetch_volume"
               /\ error' = error
               /\ local' = [local EXCEPT !.price_change_1m = c.c1m,
                                         !.price_change_5m = c.c5m,
                                         !.price_change_15m = c.c15m,
                                         !.price_change_1h = c.c1h,
                                         !.price_change_24h = local.price_change_24h_raw,
                                         !.price_at = <<cycle, idx>>]
    /\ UNCHANGED <<price_history, volume_history, idx, cycle, outbox,
                   price_log, volume_log, deviations,
                   apart>>

\* lines 251-252: get_volume and the append of the volume.
FetchVolume ==
    /\ pc = "fetch_volume"
    /\ \E volume \in VolumeFeed :
          /\ deviations + Deviates(volume, SteadyVolume) <= MaxDeviations
          /\ deviations' = deviations + Deviates(volume, SteadyVolume)
          /\ local' = [local EXCEPT !.current_volume = volume]
          /\ volume_history' = [volume_history EXCEPT
                                   ![symbol] = DequeAppend(@, volume)]
          /\ volume_log' = [volume_log EXCEPT ![symbol] = Append(@, volume)]
    /\ pc' = "volume_changes"
    /\ UNCHANGED <<price_history, idx, cycle, outbox, error, price_log,
                   apart>>

\* lines 253-256: the volume changes.
VolumeChanges ==
    /\ pc = "volume_changes"
    /\ LET c == Changes(local.current_volume, volume_history[symbol])
       IN IF c.raised # None
          THEN /\ pc' = "crashed"
               /\ error' = c.raised
               /\ local' = local
          ELSE /\ pc' = "signal"
               /\ error' = error
               /\ local' = [local EXCEPT !.volume_change_1m = c.c1m,
                                         !.volume_change_5m = c.c5m,
                                         !.volume_change_15m = c.c15m,
                                         !.volume_change_1h = c.c1h,
                                         !.volume_at = <<cycle, idx>>]
    /\ UNCHANGED <<price_history, volume_history, idx, cycle, outbox,
                   price_log, volume_log, deviations,
                   apart>>

\* lines 259-261: the three dictionaries handed to generate_signal.
OiChanges(l) ==
    [k \in Labels |->
        CASE k = "1m" -> l.oi_5m
          [] k = "5m" -> l.oi_5m
          [] k = "15m" -> l.oi_15m
          [] k = "1h" -> l.oi_1h
          [] OTHER -> l.oi_24h]

\* Mutant of PriceChangeSet: the dictionary of the previous pass is handed on
\* instead of one built from this pass's changes.
PriceChangeSetStale(l) == l.price_changes

PriceChangeSet(l) ==
    [k \in Labels |->
        CASE k = "1m" -> l.price_change_1m
          [] k = "5m" -> l.price_change_5m
          [] k = "15m" -> l.price_change_15m
          [] k = "1h" -> l.price_change_1h
          [] OTHER -> l.price_change_24h]

VolumeChangeSet(l) ==
    [k \in VolumeLabels |->
        CASE k = "1m" -> l.volume_change_1m
          [] k = "5m" -> l.volume_change_5m
          [] k = "15m" -> l.volume_change_15m
          [] OTHER -> l.volume_change_1h]

\* lines 259-264: build the dictionaries and evaluate the rule.
Evaluate ==
    /\ pc = "signal"
    /\ local' = [local EXCEPT
                    !.oi_changes = OiChanges(local),
                    !.price_changes = PriceChangeSet(local),
                    !.volume_changes = VolumeChangeSet(local),
                    !.sets_at = <<cycle, idx>>,
                    !.signal = generate_signal(symbol, local.current_price,
                                               OiChanges(local),
                                               PriceChangeSet(local),
                                               VolumeChangeSet(local))]
    /\ pc' = "send"
    /\ UNCHANGED <<price_history, volume_history, idx, cycle, outbox, error,
                   price_log, volume_log, deviations,
                   apart>>

\* lines 267-268 and the for statement of line 230: send the signal if there is
\* one, then go to the next symbol, or return when the list is exhausted.
Send ==
    /\ pc = "send"
    /\ outbox' = IF local.signal # NoSignal THEN local.signal ELSE outbox
    /\ IF idx < Len(SYMBOLS)
       THEN /\ idx' = idx + 1
            /\ pc' = "fetch"
       ELSE /\ idx' = idx
            /\ pc' = "sleep"
    /\ UNCHANGED <<price_history, volume_history, cycle, local, error,
                   price_log, volume_log, deviations,
                   apart>>

\* lines 271-273: time.sleep(60), then monitor_pairs() again with fresh locals.
Sleep ==
    /\ pc = "sleep"
    /\ cycle < MaxCycles
    /\ cycle' = cycle + 1
    /\ idx' = 1
    /\ pc' = "fetch"
    /\ local' = InitLocal
    /\ UNCHANGED <<price_history, volume_history, outbox, error,
                   price_log, volume_log, deviations,
                   apart>>

Next ==
    \/ FetchPrice
    \/ PriceChanges
    \/ FetchVolume
    \/ VolumeChanges
    \/ Evaluate
    \/ Send
    \/ Sleep

Spec == Init /\ [][Next]_vars

\* ================================================ claims on long_bot's loop
\* The last n items of a sequence.
LastN(seq, n) == SubSeq(seq, Len(seq) - n + 1, Len(seq))
Min(a, b) == IF a < b THEN a ELSE b

WindowIsTailOfLog(window, log) ==
    /\ Len(window) <= maxlen
    /\ window = LastN(log, Min(Len(log), maxlen))

\* C1: for every instrument and both metrics the window never holds more than
\* 60 samples, and it is always the last min(n, 60) of the n samples recorded so
\* far, in arrival order: at capacity a new sample evicts exactly the oldest.
C1_WindowBoundedFifo ==
    \A s \in SymbolSet :
        /\ WindowIsTailOfLog(price_history[s], price_log[s])
        /\ WindowIsTailOfLog(volume_history[s], volume_log[s])

\* C1 witness: 62 samples of each metric were recorded for an instrument, the
\* first price was a deviating one, and it is no longer in the window.
C1_Witness ==
    \E s \in SymbolSet :
        /\ Len(price_log[s]) = maxlen + 2
        /\ Len(volume_log[s]) = maxlen + 2
        /\ price_log[s][1] = F(400)
        /\ \A i \in 1..Len(price_history[s]) : price_history[s][i] # F(400)

\* C4: whatever fetch fails, the loop keeps running: it never ends with the
\* exception Python raises on arithmetic with a failed fetch's placeholder
\* (None for the price, "N/A" for the volume).
C4_FailedFetchNeverEndsLoop ==
    ~(pc = "crashed" /\ error = Raise("TypeError"))

\* C5: a zero baseline makes the change unavailable and raises no division
\* error: the loop never ends with ZeroDivisionError.
C5_ZeroBaselineNeverRaises ==
    ~(pc = "crashed" /\ error = Raise("ZeroDivisionError"))

\* The change the claim C6 states for offset k: unavailable when the window holds
\* fewer than k+1 samples, else relative to the sample k before the latest.
StatedChange(window, k) ==
    IF Len(window) < k + 1 THEN None
    ELSE PercentChange(window[Len(window)], window[Len(window) - k])

\* C6: once the changes of a metric are computed, the change of each label 1m,
\* 5m, 15m, 1h is the one of the offset 1, 5, 15, 60: relative to the sample
\* recorded exactly k samples before the latest, and unavailable exactly when
\* the window holds fewer than k+1 samples.
C6_ChangeUsesSampleKBack ==
    /\ pc = "fetch_volume" =>
          /\ local.price_change_1m = StatedChange(price_history[symbol], 1)
          /\ local.price_change_5m = StatedChange(price_history[symbol], 5)
          /\ local.price_change_15m = StatedChange(price_history[symbol], 15)
          /\ local.price_change_1h = StatedChange(price_history[symbol], 60)
    /\ pc = "signal" =>
          /\ local.volume_change_1m = StatedChange(volume_history[symbol], 1)
          /\ local.volume_change_5m = StatedChange(volume_history[symbol], 5)
          /\ local.volume_change_15m = StatedChange(volume_history[symbol], 15)
          /\ local.volume_change_1h = StatedChange(volume_history[symbol], 60)

\* C8: in every pass the sample fetched is in the window (as its newest entry,
\* and as the entry of this cycle) before the changes of its metric are
\* computed, and the three ChangeSets generate_signal was called with were all
\* built from values assigned in this pass: same cycle, same instrument.
C8_SameCycleOrdering ==
    /\ pc = "price_changes" =>
          /\ Len(price_log[symbol]) = cycle
          /\ price_history[symbol][Len(price_history[symbol])] = local.current_price
    /\ pc = "volume_changes" =>
          /\ Len(volume_log[symbol]) = cycle
          /\ volume_history[symbol][Len(volume_history[symbol])] = local.current_volume
    /\ pc = "send" =>
          /\ local.sets_at = <<cycle, idx>>
          /\ local.oi_at = <<cycle, idx>>
          /\ local.price_at = <<cycle, idx>>
          /\ local.volume_at = <<cycle, idx>>
          /\ local.oi_changes = OiChanges(local)
          /\ local.price_changes["1m"] =
                ChangeOrNone(local.current_price, price_history[symbol], Idx1m)
          /\ local.volume_changes["1m"] =
                ChangeOrNone(local.current_volume, volume_history[symbol], Idx1m)

\* C8 witness: the second instrument's pass of a later cycle reached the call of
\* generate_signal with changes that differ from the first instrument's.
C8_Witness ==
    /\ pc = "send"
    /\ idx = 2
    /\ cycle = 3
    /\ local.price_changes["1m"] = F(1000)
    /\ price_history[SYMBOLS[1]][Len(price_history[SYMBOLS[1]])] = F(200)

\* ============================================ generate_signal called directly
\* The scenario of the specification: OI {1m:-2, 5m:-2, 15m:-3, 1h:-4, 24h:-5},
\* price {1m:-1, 5m:-1.5, 15m:-2, 1h:-2, 24h:-2}, volume all >= 0, price 100.
ScenarioOi ==
    [k \in Labels |->
        CASE k = "1m" -> F(-20) [] k = "5m" -> F(-20) [] k = "15m" -> F(-30)
          [] k = "1h" -> F(-40) [] OTHER -> F(-50)]
ScenarioPrice ==
    [k \in Labels |->
        CASE k = "1m" -> F(-10) [] k = "5m" -> F(-15) [] OTHER -> F(-20)]
ScenarioVolume == [k \in VolumeLabels |-> F(10)]
ScenarioCurrentPrice == F(10000)

\* ChangeSets with one value at every label, and those with one label changed.
Family(labels, values) ==
    { [k \in labels |-> IF k = odd THEN v ELSE b] :
        odd \in labels, b \in values, v \in values }

OiInputs ==
    Family(Labels, {None, F(-20), F(20)})
        \cup {ScenarioOi, [ScenarioOi EXCEPT !["15m"] = F(5)]}
PriceInputs == Family(Labels, {None, F(-20), F(20)}) \cup {ScenarioPrice}
VolumeInputs == Family(VolumeLabels, {None, F(-20), F(130)}) \cup {ScenarioVolume}
CurrentPriceInputs == {ScenarioCurrentPrice, None}

InitEval ==
    /\ price_history = EmptyHistory
    /\ volume_history = EmptyHistory
    /\ pc = "call"
    /\ idx = 1
    /\ cycle = 1
    /\ local = InitLocal
    /\ outbox = NoSignal
    /\ error = None
    /\ price_log = EmptyHistory
    /\ volume_log = EmptyHistory
    /\ deviations = 0
    /\ call \in [symbol : {SYMBOLS[1]}, current_price : CurrentPriceInputs,
                 oi_changes : OiInputs, price_changes : PriceInputs,
                 volume_changes : VolumeInputs]
    /\ returned = Unbound
    /\ tracked = {}
    /\ store = [s \in {} |-> <<>>]
    /\ refresh = NoRefresh

\* signal = generate_signal(symbol, current_price, oi_changes, price_changes,
\*                          volume_changes)
CallGenerateSignal ==
    /\ pc = "call"
    /\ returned' = generate_signal(call.symbol, call.current_price,
                                   call.oi_changes, call.price_changes,
                                   call.volume_changes)
    /\ pc' = "returned"
    /\ UNCHANGED <<price_history, volume_history, idx, cycle, local, outbox,
                   error, price_log, volume_log, deviations, call, tracked, store,
                   refresh>>

NextEval == CallGenerateSignal

SpecEval == InitEval /\ [][NextEval]_vars

\* C2: with the scenario's ChangeSets and current price 100, generate_signal
\* returns a signal with stop-loss 98.00 and TP1 = TP2 = TP3 = 104.00.
C2_ScenarioTriggers ==
    (/\ pc = "returned"
     /\ call.current_price = ScenarioCurrentPrice
     /\ call.oi_changes = ScenarioOi
     /\ call.price_changes = ScenarioPrice
     /\ call.volume_changes = ScenarioVolume)
    => /\ returned.t = "signal"
       /\ returned.stop_loss = 9800
       /\ returned.tp1 = 10400
       /\ returned.tp2 = 10400
       /\ returned.tp3 = 10400

Unavailable(changes) == \E k \in DOMAIN changes : changes[k] = None
NotAllFalling(changes) ==
    \E k \in DOMAIN changes : changes[k] = None \/ changes[k].v >= 0

\* C3: when an entry of the OI ChangeSet is unavailable or >= 0 the OI condition
\* is false and no signal is returned, whatever the other arguments are; an
\* unavailable entry of the price (volume) ChangeSet makes the price (volume)
\* condition false.
C3_IncompleteDataNeverTriggers ==
    pc = "returned" =>
        /\ NotAllFalling(call.oi_changes) =>
              /\ ~oi_condition(call.oi_changes)
              /\ returned = NoSignal
        /\ Unavailable(call.price_changes) => ~price_condition_1(call.price_changes)
        /\ Unavailable(call.volume_changes) => ~volume_condition(call.volume_changes)

\* C3 witness: the scenario with oi["15m"] = +0.5 was evaluated and gave no
\* signal.
C3_Witness ==
    /\ pc = "returned"
    /\ call.oi_changes = [ScenarioOi EXCEPT !["15m"] = F(5)]
    /\ call.price_changes = ScenarioPrice
    /\ call.volume_changes = ScenarioVolume
    /\ call.current_price = ScenarioCurrentPrice
    /\ returned = NoSignal

\* ======================================================== signal_bot.py loop
\* The symbols of signal_bot.py (the first two of its list).
SB_SYMBOLS == <<"BTCUSDT", "ETHUSDT">>
SB_SymbolSet == {SB_SYMBOLS[i] : i \in 1..Len(SB_SYMBOLS)}
SB_EmptyHistory == [s \in SB_SymbolSet |-> <<>>]
sb_symbol == SB_SYMBOLS[idx]

\* A rendered value: the marker put before it ("" for none), and what follows:
\* the literal N/A or a number v.
Rendered(marker, body, v) == [t |-> "str", marker |-> marker, body |-> body, v |-> v]
RenderedNA == Rendered("", "N/A", 0)
RaiseRendered(e) == [t |-> e, marker |-> "", body |-> "", v |-> 0]
NotRendered == [t |-> "unbound", marker |-> "", body |-> "", v |-> 0]

\* long_bot.py's calculate_change_with_emoji(change_value); nothing calls it.
long_calculate_change_with_emoji(change_value) ==
    IF change_value = None THEN RenderedNA
    ELSE IF change_value.v > 0 THEN Rendered("up", "number", change_value.v)
    ELSE IF change_value.v < 0 THEN Rendered("down", "number", change_value.v)
    ELSE Rendered("flat", "number", 0)

\* Mutant of calculate_change_with_emoji: with a previous value of 0 the
\* current value is rendered by its sign as the change.
calculate_change_of_current(current_value, previous_value) ==
    IF ~IsNum(current_value) \/ ~IsNum(previous_value) THEN RenderedNA
    ELSE LET change == IF previous_value.v = 0 THEN current_value.v
                       ELSE ((current_value.v - previous_value.v) * PerMille)
                               \div previous_value.v
         IN IF change > 0 THEN Rendered("up", "number", change)
            ELSE IF change < 0 THEN Rendered("down", "number", change)
            ELSE Rendered("flat", "number", 0)

\* signal_bot.py's calculate_change_with_emoji(current_value, previous_value).
calculate_change_with_emoji(current_value, previous_value) ==
    IF previous_value = F(0) THEN RenderedNA
    ELSE IF ~IsNum(current_value) \/ ~IsNum(previous_value)
         THEN RaiseRendered("TypeError")
    ELSE LET change == ((current_value.v - previous_value.v) * PerMille)
                          \div previous_value.v
         IN IF change > 0 THEN Rendered("up", "number", change)
            ELSE IF change < 0 THEN Rendered("down", "number", change)
            ELSE Rendered("flat", "number", 0)

\* calculate_change_with_emoji(cur, h[-k]) if len(h) >= k else "N/A"
EmojiOrNA(cur, h, k) ==
    IF Len(h) >= k THEN calculate_change_with_emoji(cur, At(h, k)) ELSE RenderedNA

\* The first exception among rendered values, in source order, or None.
FirstRaised(rs) ==
    IF \E i \in 1..Len(rs) : rs[i].t # "str"
    THEN Raise(rs[CHOOSE i \in 1..Len(rs) :
                     /\ rs[i].t # "str"
                     /\ \A j \in 1..(i - 1) : rs[j].t = "str"].t)
    ELSE None

\* get_price_data of signal_bot.py; the .get defaults are 'N/A'.
SB_SteadyTicker == SteadyTicker
SB_TickerFeed ==
    { [price |-> NA, price_change_24h |-> NA],
      [price |-> F(0), price_change_24h |-> F(-1000)],
      SB_SteadyTicker,
      [price |-> F(400), price_change_24h |-> F(10)] }

\* get_open_interest_change of signal_bot.py: "N/A" on failure.
SB_OiFeed ==
    { [oi_5m |-> NA, oi_15m |-> NA, oi_1h |-> NA, oi_24h |-> NA],
      SteadyOi,
      [oi_5m |-> F(20), oi_15m |-> F(-30), oi_1h |-> NA, oi_24h |-> F(0)] }

\* get_funding_rate: "N/A", or the rate formatted with two decimals.
SteadyFunding == F(1)
FundingFeed == {NA, SteadyFunding}

SB_NoMessage ==
    [t |-> "None", symbol |-> "", current_price |-> Unbound,
     oi_5m |-> NotRendered, oi_15m |-> NotRendered, oi_1h |-> NotRendered,
     oi_24h |-> NotRendered,
     price_change_1m |-> NotRendered, price_change_5m |-> NotRendered,
     price_change_15m |-> NotRendered, price_change_1h |-> NotRendered,
     price_change_24h |-> NotRendered,
     volume_change_1m |-> NotRendered, volume_change_15m |-> NotRendered,
     volume_change_1h |-> NotRendered,
     volume |-> Unbound, funding_rate |-> Unbound]

SB_InitLocal ==
    [oi_fetched |-> [oi_5m |-> Unbound, oi_15m |-> Unbound, oi_1h |-> Unbound,
                     oi_24h |-> Unbound],
     oi_5m |-> NotRendered, oi_15m |-> NotRendered, oi_1h |-> NotRendered,
     oi_24h |-> NotRendered,
     current_price |-> Unbound, price_change_24h |-> Unbound,
     price_change_1m |-> NotRendered, price_change_5m |-> NotRendered,
     price_change_15m |-> NotRendered, price_change_1h |-> NotRendered,
     current_volume |-> Unbound,
     volume_change_1m |-> NotRendered, volume_change_15m |-> NotRendered,
     volume_change_1h |-> NotRendered,
     funding_rate |-> Unbound]

SB_Init ==
    /\ price_history = SB_EmptyHistory
    /\ volume_history = SB_EmptyHistory
    /\ pc = "fetch"
    /\ idx = 1
    /\ cycle = 1
    /\ local = SB_InitLocal
    /\ outbox = SB_NoMessage
    /\ error = None
    /\ price_log = SB_EmptyHistory
    /\ volume_log = SB_EmptyHistory
    /\ deviations = 0
    /\ call = NoCall
    /\ returned = Unbound
    /\ tracked = {}
    /\ store = [s \in {} |-> <<>>]
    /\ refresh = NoRefresh

\* lines 191-202: the OI lines, get_price_data and the append of the price.
SB_FetchPrice ==
    /\ pc = "fetch"
    /\ \E oi \in SB_OiFeed, price_data \in SB_TickerFeed :
          /\ deviations' = deviations + Deviates(oi, SteadyOi)
                                       + Deviates(price_data, SB_SteadyTicker)
          /\ deviations' <= MaxDeviations
          /\ local' = [local EXCEPT
                          !.oi_fetched = oi,
                          !.oi_5m = calculate_change_with_emoji(oi.oi_5m, F(0)),
                          !.oi_15m = calculate_change_with_emoji(oi.oi_15m, F(0)),
                          !.oi_1h = calculate_change_with_emoji(oi.oi_1h, F(0)),
                          !.oi_24h = calculate_change_with_emoji(oi.oi_24h, F(0)),
                          !.current_price = price_data.price,
                          !.price_change_24h = price_data.price_change_24h]
          /\ price_history' = [price_history EXCEPT
                                  ![sb_symbol] = DequeAppend(@, price_data.price)]
          /\ price_log' = [price_log EXCEPT ![sb_symbol] = Append(@, price_data.price)]
    /\ pc' = "price_changes"
    /\ UNCHANGED <<volume_history, idx, cycle, outbox, error, volume_log, apart>>

\* lines 203-206: the rendered price changes; an exception ends the thread.
SB_PriceChanges ==
    /\ pc = "price_changes"
    /\ LET h == price_history[sb_symbol]
           c1 == EmojiOrNA(local.current_price, h, Idx1m)
           c5 == EmojiOrNA(local.current_price, h, Idx5m)
           c15 == EmojiOrNA(local.current_price, h, Idx15m)
           c60 == EmojiOrNA(local.current_price, h, Idx1h)
           raised == FirstRaised(<<c1, c5, c15, c60>>)
       IN IF raised # None
          THEN /\ pc' = "crashed"
               /\ error' = raised
               /\ local' = local
          ELSE /\ pc' = "fetch_volume"
               /\ error' = error
               /\ local' = [local EXCEPT !.price_change_1m = c1,
                                         !.price_change_5m = c5,
                                         !.price_change_15m = c15,
                                         !.price_change_1h = c60]
    /\ UNCHANGED <<price_history, volume_history, idx, cycle, outbox,
                   price_log, volume_log, deviations, apart>>

\* lines 209-210: get_volume and the append of the volume.
SB_FetchVolume ==
    /\ pc = "fetch_volume"
    /\ \E volume \in VolumeFeed :
          /\ deviations' = deviations + Deviates(volume, SteadyVolume)
          /\ deviations' <= MaxDeviations
          /\ local' = [local EXCEPT !.current_volume = volume]
          /\ volume_history' = [volume_history EXCEPT
                                   ![sb_symbol] = DequeAppend(@, volume)]
          /\ volume_log' = [volume_log EXCEPT ![sb_symbol] = Append(@, volume)]
    /\ pc' = "volume_changes"
    /\ UNCHANGED <<price_history, idx, cycle, outbox, error, price_log, apart>>

\* lines 211-213: the rendered volume changes (1m, 15m, 1h).
SB_VolumeChanges ==
    /\ pc = "volume_changes"
    /\ LET h == volume_history[sb_symbol]
           c1 == EmojiOrNA(local.current_volume, h, Idx1m)
           c15 == EmojiOrNA(local.current_volume, h, Idx15m)
           c60 == EmojiOrNA(local.current_volume, h, Idx1h)
           raised == FirstRaised(<<c1, c15, c60>>)
       IN IF raised # None
          THEN /\ pc' = "crashed"
               /\ error' = raised
               /\ local' = local
          ELSE /\ pc' = "message"
               /\ error' = error
               /\ local' = [local EXCEPT !.volume_change_1m = c1,
                                         !.volume_change_15m = c15,
                                         !.volume_change_1h = c60]
    /\ UNCHANGED <<price_history, volume_history, idx, cycle, outbox,
                   price_log, volume_log, deviations, apart>>

\* lines 219-238: the f-string of the message. The 24h price line is written
\* with the red marker before whatever price_change_24h holds.
SB_Message(l, funding_rate) ==
    [t |-> "message", symbol |-> sb_symbol, current_price |-> l.current_price,
     oi_5m |-> l.oi_5m, oi_15m |-> l.oi_15m, oi_1h |-> l.oi_1h, oi_24h |-> l.oi_24h,
     price_change_1m |-> l.price_change_1m, price_change_5m |-> l.price_change_5m,
     price_change_15m |-> l.price_change_15m, price_change_1h |-> l.price_change_1h,
     price_change_24h |->
        Rendered("down", IF IsNum(l.price_change_24h) THEN "number" ELSE "N/A",
                 l.price_change_24h.v),
     volume_change_1m |-> l.volume_change_1m,
     volume_change_15m |-> l.volume_change_15m,
     volume_change_1h |-> l.volume_change_1h,
     volume |-> l.current_volume, funding_rate |-> funding_rate]

\* lines 216-239 and the for statement of line 190: get_funding_rate, the
\* message ({current_volume:,.2f} raises ValueError on the string "N/A"),
\* send_telegram_message, then the next symbol or the sleep.
SB_Send ==
    /\ pc = "message"
    /\ \E funding_rate \in FundingFeed :
          /\ deviations' = deviations + Deviates(funding_rate, SteadyFunding)
          /\ deviations' <= MaxDeviations
          /\ local' = [local EXCEPT !.funding_rate = funding_rate]
          /\ IF ~IsNum(local.current_volume)
             THEN /\ pc' = "crashed"
                  /\ error' = Raise("ValueError")
                  /\ UNCHANGED <<outbox, idx>>
             ELSE /\ outbox' = SB_Message(local, funding_rate)
                  /\ error' = error
                  /\ IF idx < Len(SB_SYMBOLS)
                     THEN /\ idx' = idx + 1
                          /\ pc' = "fetch"
                     ELSE /\ idx' = idx
                          /\ pc' = "sleep"
    /\ UNCHANGED <<price_history, volume_history, cycle, price_log, volume_log,
                   apart>>

\* line 242 and the while statement of line 189: time.sleep(60), next cycle.
SB_Sleep ==
    /\ pc = "sleep"
    /\ cycle < MaxCycles
    /\ cycle' = cycle + 1
    /\ idx' = 1
    /\ pc' = "fetch"
    /\ UNCHANGED <<price_history, volume_history, local, outbox, error,
                   price_log, volume_log, deviations, apart>>

SB_Next ==
    \/ SB_FetchPrice
    \/ SB_PriceChanges
    \/ SB_FetchVolume
    \/ SB_VolumeChanges
    \/ SB_Send
    \/ SB_Sleep

SpecSignalBot == SB_Init /\ [][SB_Next]_vars

SignMarker(v) == IF v > 0 THEN "up" ELSE IF v < 0 THEN "down" ELSE "flat"

\* A rendered line follows the rule: N/A without marker, or a number with the
\* marker of its sign.
MarkerBySign(r) ==
    IF r.body = "N/A" THEN r.marker = "" ELSE r.marker = SignMarker(r.v)

\* C9: in every message sent, every change line, the 24h price line included,
\* is either the literal N/A without a marker or a number with the marker of
\* its sign (positive up, negative down, zero neutral).
C9_MarkerChosenBySign ==
    outbox.t = "message" =>
        /\ MarkerBySign(outbox.price_change_1m)
        /\ MarkerBySign(outbox.price_change_5m)
        /\ MarkerBySign(outbox.price_change_15m)
        /\ MarkerBySign(outbox.price_change_1h)
        /\ MarkerBySign(outbox.price_change_24h)
        /\ MarkerBySign(outbox.volume_change_1m)
        /\ MarkerBySign(outbox.volume_change_15m)
        /\ MarkerBySign(outbox.volume_change_1h)

\* ======================================================== InstrumentUniverse
\* The refresh of the tracked set is not part of long_bot.py or signal_bot.py
\* (their SYMBOLS lists are fixed); it is modelled from section 4.4 of the
\* specification.

\* Refreshes and polling cycles a run of this model goes through.
MaxRefreshes == 2
MaxUniverseCycles == 3

volumeCeiling == 1000000
Candidates == {"XUSDT", "YUSDT", "XBTC"}
EndsWithQuote(s) == s \in {"XUSDT", "YUSDT"}
QuoteVolumes == {500000, 1500000}
Listings == UNION {[d -> QuoteVolumes] : d \in SUBSET Candidates}
ValidSets == {Candidates, {"XUSDT", "XBTC"}}

\* {s in listing : s ends with the quote suffix, volume(s) < ceiling, s valid}
Universe(listing, validSet) ==
    {s \in DOMAIN listing :
        EndsWithQuote(s) /\ listing[s] < volumeCeiling /\ s \in validSet}

\* Mutant of ResetStores: windows of instruments that stay are carried forward.
KeepStores(new, old) ==
    [s \in new |-> IF s \in DOMAIN old THEN old[s] ELSE <<>>]

\* Every instrument of the new universe starts with an empty window.
ResetStores(new, old) == [s \in new |-> <<>>]

InitUniverse ==
    /\ price_history = EmptyHistory
    /\ volume_history = EmptyHistory
    /\ pc = "idle"
    /\ idx = 1
    /\ cycle = 0
    /\ local = InitLocal
    /\ outbox = NoSignal
    /\ error = None
    /\ price_log = EmptyHistory
    /\ volume_log = EmptyHistory
    /\ deviations = 0
    /\ call = NoCall
    /\ returned = Unbound
    /\ tracked = {}
    /\ store = [s \in {} |-> <<>>]
    /\ refresh = NoRefresh

\* refresh(listing, validSet), between two cycles: the tracked set is replaced
\* and every window reset, in one step.
Refresh ==
    /\ pc = "idle"
    /\ refresh.n < MaxRefreshes
    /\ \E listing \in Listings, validSet \in ValidSets :
          /\ tracked' = Universe(listing, validSet)
          /\ store' = ResetStores(Universe(listing, validSet), store)
          /\ refresh' = [n |-> refresh.n + 1, ok |-> TRUE, listing |-> listing,
                         validSet |-> validSet, before |-> store]
    /\ UNCHANGED <<price_history, volume_history, pc, idx, cycle, local, outbox,
                   error, price_log, volume_log, deviations, call, returned>>

\* The listing call fails: universe and stores stay, the failure is reported.
RefreshFails ==
    /\ pc = "idle"
    /\ refresh.n < MaxRefreshes
    /\ refresh' = [n |-> refresh.n + 1, ok |-> FALSE,
                   listing |-> [s \in {} |-> 0], validSet |-> {},
                   before |-> store]
    /\ error' = Raise("ListingFailed")
    /\ UNCHANGED <<price_history, volume_history, pc, idx, cycle, local, outbox,
                   tracked, store, price_log, volume_log, deviations, call,
                   returned>>

\* One polling cycle: a sample is recorded for every tracked instrument. An
\* instrument without a window would end the cycle with a KeyError.
UniverseCycle ==
    /\ pc = "idle"
    /\ cycle < MaxUniverseCycles
    /\ cycle' = cycle + 1
    /\ IF tracked \subseteq DOMAIN store
       THEN /\ \E sample \in {F(200), F(400)} :
                  store' = [s \in DOMAIN store |->
                               IF s \in tracked THEN DequeAppend(store[s], sample)
                               ELSE store[s]]
            /\ UNCHANGED <<pc, error>>
       ELSE /\ pc' = "crashed"
            /\ error' = Raise("KeyError")
            /\ store' = store
    /\ UNCHANGED <<price_history, volume_history, idx, local, outbox, tracked,
                   price_log, volume_log, deviations, call, returned, refresh>>

NextUniverse == Refresh \/ RefreshFails \/ UniverseCycle

SpecUniverse == InitUniverse /\ [][NextUniverse]_vars

\* C10: a refresh replaces the tracked set by the filtered listing and leaves
\* every tracked instrument with an empty window, dropping the others with
\* their history; a failed listing call leaves the tracked set and every
\* window as they were; and at all times exactly the tracked instruments have
\* a window.
C10_RefreshAtomicOrUntouched ==
    /\ [](DOMAIN store = tracked /\ pc # "crashed")
    /\ [][refresh'.n # refresh.n =>
            IF refresh'.ok
            THEN /\ tracked' = Universe(refresh'.listing, refresh'.validSet)
                 /\ DOMAIN store' = tracked'
                 /\ \A s \in tracked' : store'[s] = <<>>
            ELSE /\ tracked' = tracked
                 /\ store' = store]_vars

\* C10 witness: the listing held XUSDT at quote volume 500,000, in the valid
\* set, and not YUSDT, which was tracked with recorded history: now XUSDT is
\* tracked with an empty window and YUSDT and its window are gone.
C10_Witness ==
    /\ refresh.ok
    /\ "XUSDT" \in DOMAIN refresh.listing
    /\ refresh.listing["XUSDT"] = 500000
    /\ "XUSDT" \in refresh.validSet
    /\ "YUSDT" \notin DOMAIN refresh.listing
    /\ "YUSDT" \in DOMAIN refresh.before
    /\ Len(refresh.before["YUSDT"]) = 2
    /\ "XUSDT" \in DOMAIN refresh.before
    /\ Len(refresh.before["XUSDT"]) = 2
    /\ tracked = {"XUSDT"}
    /\ DOMAIN store = {"XUSDT"}
    /\ store["XUSDT"] = <<>>

\* ===================================== long_bot.py: the rule and the loop
\* generate_signal on every enumerated argument, and monitor_pairs' runs.
InitLongBot == Init \/ InitEval

NextLongBot ==
    \/ FetchPrice
    \/ PriceChanges
    \/ FetchVolume
    \/ VolumeChanges
    \/ Evaluate
    \/ Send
    \/ Sleep
    \/ CallGenerateSignal

SpecLongBot == InitLongBot /\ [][NextLongBot]_vars

\* C11: generate_signal returns None for every combination of ChangeSets and
\* current price, a pass of monitor_pairs never holds a signal, and nothing is
\* ever handed to send_telegram_message.
C11_SignalNeverGenerated ==
    /\ pc = "returned" => returned = NoSignal
    /\ local.signal = NoSignal
    /\ outbox = NoSignal

\* C11 witness: generate_signal returned None for the scenario in which every
\* OI and price change falls (5m: -2 % and -1.5 %).
C11_Witness ==
    /\ pc = "returned"
    /\ call.oi_changes = ScenarioOi
    /\ call.price_changes = ScenarioPrice
    /\ call.current_price = ScenarioCurrentPrice
    /\ returned = NoSignal

\* A pass of the loop whose OI changes all fall is over, and nothing was sent.
C11_PassEndedWithoutSignal ==
    /\ pc = "sleep"
    /\ cycle = 2
    /\ AllNegative(local.oi_changes)
    /\ local.signal = NoSignal
    /\ outbox = NoSignal

\* ================================================== both polling loops
\* long_bot.py's locals hold a signal, signal_bot.py's do not.
LongBotRunning == "signal" \in DOMAIN local

InitBots == Init \/ SB_Init

NextBots ==
    \/ LongBotRunning /\ FetchPrice
    \/ LongBotRunning /\ PriceChanges
    \/ LongBotRunning /\ FetchVolume
    \/ LongBotRunning /\ VolumeChanges
    \/ LongBotRunning /\ Evaluate
    \/ LongBotRunning /\ Send
    \/ LongBotRunning /\ Sleep
    \/ ~LongBotRunning /\ SB_FetchPrice
    \/ ~LongBotRunning /\ SB_PriceChanges
    \/ ~LongBotRunning /\ SB_FetchVolume
    \/ ~LongBotRunning /\ SB_VolumeChanges
    \/ ~LongBotRunning /\ SB_Send
    \/ ~LongBotRunning /\ SB_Sleep

SpecBots == InitBots /\ [][NextBots]_vars

RunningSymbols == IF LongBotRunning THEN SYMBOLS ELSE SB_SYMBOLS

\* Passes completed for the i-th symbol: one per cycle gone by, and one more
\* when this cycle's pass over it is behind.
PassesCompleted(i) ==
    IF pc = "sleep" \/ i < idx THEN cycle ELSE cycle - 1

\* No pass over the i-th symbol is under way (or was cut short by an exception).
BetweenPasses(i) == pc \in {"fetch", "sleep"} \/ i # idx

\* C12: between the passes over an instrument both its windows hold min(n, 60)
\* entries, n being the passes completed for it; the entry of a fetch is in
\* the window after the fetch also when it is the None / "N/A" placeholder of a
\* failed fetch; and the instruments owning a window are always the SYMBOLS.
C12_OneEntryPerPass ==
    /\ \A i \in 1..Len(RunningSymbols) :
          BetweenPasses(i) =>
              /\ Len(price_history[RunningSymbols[i]])
                    = Min(PassesCompleted(i), maxlen)
              /\ Len(volume_history[RunningSymbols[i]])
                    = Min(PassesCompleted(i), maxlen)
    /\ pc = "price_changes" =>
          /\ Len(price_log[RunningSymbols[idx]]) = cycle
          /\ Len(price_history[RunningSymbols[idx]]) = Min(cycle, maxlen)
          /\ At(price_history[RunningSymbols[idx]], 1) = local.current_price
    /\ pc = "volume_changes" =>
          /\ Len(volume_log[RunningSymbols[idx]]) = cycle
          /\ Len(volume_history[RunningSymbols[idx]]) = Min(cycle, maxlen)
          /\ At(volume_history[RunningSymbols[idx]], 1) = local.current_volume
    /\ DOMAIN price_history = {RunningSymbols[i] : i \in 1..Len(RunningSymbols)}
    /\ DOMAIN volume_history = DOMAIN price_history

\* C12 witness: long_bot.py's first cycle is over; the price fetch of the second
\* symbol failed and the volume fetch did not, and each of its windows holds
\* one entry, the price window the placeholder None.
C12_Witness ==
    /\ LongBotRunning
    /\ pc = "sleep"
    /\ cycle = 1
    /\ price_history[SYMBOLS[2]] = <<None>>
    /\ volume_history[SYMBOLS[2]] = <<SteadyVolume>>

\* signal_bot.py: a pass whose price fetch failed is over, "N/A" in the window.
C12_WitnessSignalBot ==
    /\ ~LongBotRunning
    /\ pc = "sleep"
    /\ cycle = 1
    /\ price_history[SB_SYMBOLS[2]] = <<NA>>
    /\ Len(volume_history[SB_SYMBOLS[2]]) = 1

\* Both windows of an instrument are full after more than 60 passes.
C12_WitnessFull ==
    /\ pc = "sleep"
    /\ cycle = maxlen + 2
    /\ \A i \in 1..Len(RunningSymbols) :
          /\ Len(price_history[RunningSymbols[i]]) = maxlen
          /\ Len(volume_history[RunningSymbols[i]]) = maxlen

\* ================================================== signal_bot.py: OI lines
\* C13: each of the four OI lines (5m, 15m, 1h, 24h) of every message
\* signal_bot.py sends reads "N/A", whatever get_open_interest_change returned.
C13_OiLinesAlwaysNA ==
    outbox.t = "message" =>
        /\ outbox.oi_5m = RenderedNA
        /\ outbox.oi_15m = RenderedNA
        /\ outbox.oi_1h = RenderedNA
        /\ outbox.oi_24h = RenderedNA

\* C13 witness: the message of the last pass of a cycle is out; the OI fetch of
\* that pass returned a rise, a fall, a zero and a failure, and all four lines
\* of the message read "N/A".
C13_Witness ==
    /\ pc = "sleep"
    /\ outbox.t = "message"
    /\ outbox.symbol = SB_SYMBOLS[idx]
    /\ local.oi_fetched.oi_5m = F(20)
    /\ local.oi_fetched.oi_15m = F(-30)
    /\ local.oi_fetched.oi_24h = F(0)
    /\ outbox.oi_5m = RenderedNA
    /\ outbox.oi_15m = RenderedNA
    /\ outbox.oi_1h = RenderedNA
    /\ outbox.oi_24h = RenderedNA

=============================================================================
